---- MODULE Spec2Model ----
(***************************************************************************)
(* Phone-prefix analysis of a Braze user export                            *)
(* (utils/analisis_telefonos_streaming.py) and the loader of the chart     *)
(* renderer (utils/graficar_analisis.py).                                  *)
(*                                                                         *)
(* Text is modelled at the granularity the code looks at it:               *)
(*  - a phone, a date, a period and a CSV line are sequences of            *)
(*    one-character strings;                                               *)
(*  - a line of the JSON export is a sequence of tokens [k, v]: the        *)
(*    punctuation the reconstructor counts ("{", "}", ",", "[", "]", " ")  *)
(*    and whole `"key": value` members, v being the characters of a        *)
(*    string value.                                                        *)
(* Percentages are kept in hundredths (3000 stands for 30.0).              *)
(***************************************************************************)
EXTENDS Integers, Sequences, FiniteSets, TLC

----------------------------------------------------------------------------
(* Bounds of the model *)

\* objects in the JSON export
MaxObjetos == 2

\* data rows in the registration CSV
MaxFilas == 2

\* records of one period in one classification list (aggregator inputs)
MaxPorPeriodo == 7

----------------------------------------------------------------------------
(* Characters and strings *)

DIGITOS == <<"0", "1", "2", "3", "4", "5", "6", "7", "8", "9">>

\* \d of the regular expressions
EsDigito(c) == \E i \in 1..10 : DIGITOS[i] = c

ValorDigito(c) == (CHOOSE i \in 1..10 : DIGITOS[i] = c) - 1

\* str.strip(): whitespace characters
EsBlanco(c) == c \in {" ", "\r", "\t"}

RECURSIVE LStrip(_)
LStrip(s) ==
    IF s # <<>> /\ EsBlanco(Head(s)) THEN LStrip(Tail(s)) ELSE s

RECURSIVE RStrip(_)
RStrip(s) ==
    IF s # <<>> /\ EsBlanco(s[Len(s)]) THEN RStrip(SubSeq(s, 1, Len(s) - 1)) ELSE s

Strip(s) == RStrip(LStrip(s))

\* re.sub(r'\D', '', s)
SoloDigitos(s) == SelectSeq(s, EsDigito)

\* s[-10:]
Ultimos10(s) == IF Len(s) >= 10 THEN SubSeq(s, Len(s) - 9, Len(s)) ELSE s

\* int() of a digit string
RECURSIVE AEntero(_)
AEntero(s) ==
    IF s = <<>> THEN 0
    ELSE 10 * AEntero(SubSeq(s, 1, Len(s) - 1)) + ValorDigito(s[Len(s)])

\* str() of a natural number
RECURSIVE ATexto(_)
ATexto(n) ==
    IF n < 10 THEN <<DIGITOS[n + 1]>>
    ELSE ATexto(n \div 10) \o <<DIGITOS[(n % 10) + 1]>>

\* ordinal of the characters that occur in period keys
Ord(c) == IF EsDigito(c) THEN 48 + ValorDigito(c) ELSE IF c = "-" THEN 45 ELSE 32

\* str.__lt__: lexicographic order by code point
RECURSIVE MenorTexto(_, _)
MenorTexto(a, b) ==
    IF b = <<>> THEN FALSE
    ELSE IF a = <<>> THEN TRUE
    ELSE IF Head(a) # Head(b) THEN Ord(Head(a)) < Ord(Head(b))
    ELSE MenorTexto(Tail(a), Tail(b))

\* sorted(set(...)) of strings
RECURSIVE Sorted(_)
Sorted(S) ==
    IF S = {} THEN <<>>
    ELSE LET m == CHOOSE x \in S : \A y \in S \ {x} : MenorTexto(x, y)
         IN  <<m>> \o Sorted(S \ {m})

\* 'No disponible'
NoDisponible == <<"No disponible">>

----------------------------------------------------------------------------
(* Dates *)

TodosDigitos(s) == \A i \in 1..Len(s) : EsDigito(s[i])

Bisiesto(y) == (y % 4 = 0 /\ y % 100 # 0) \/ y % 400 = 0

DiasDelMes(y, m) ==
    IF m = 2 THEN (IF Bisiesto(y) THEN 29 ELSE 28)
    ELSE IF m \in {4, 6, 9, 11} THEN 30 ELSE 31

\* datetime.strptime(s, '%Y-%m-%d %H:%M:%S') on zero-padded text: %Y takes
\* exactly four digits, the fields are range-checked, nothing may follow.
\* ok = FALSE stands for the ValueError.
StrptimeFechaHora(s) ==
    LET forma == /\ Len(s) = 19
                 /\ s[5] = "-" /\ s[8] = "-" /\ s[11] = " "
                 /\ s[14] = ":" /\ s[17] = ":"
                 /\ TodosDigitos(SubSeq(s, 1, 4)) /\ TodosDigitos(SubSeq(s, 6, 7))
                 /\ TodosDigitos(SubSeq(s, 9, 10)) /\ TodosDigitos(SubSeq(s, 12, 13))
                 /\ TodosDigitos(SubSeq(s, 15, 16)) /\ TodosDigitos(SubSeq(s, 18, 19))
        y == AEntero(SubSeq(s, 1, 4))
        m == AEntero(SubSeq(s, 6, 7))
        d == AEntero(SubSeq(s, 9, 10))
        valida == /\ y >= 1 /\ m \in 1..12 /\ d >= 1 /\ d <= DiasDelMes(y, m)
                  /\ AEntero(SubSeq(s, 12, 13)) <= 23
                  /\ AEntero(SubSeq(s, 15, 16)) <= 59
                  /\ AEntero(SubSeq(s, 18, 19)) <= 59
    IN  IF forma /\ valida THEN [ok |-> TRUE, year |-> y, month |-> m]
        ELSE [ok |-> FALSE, year |-> 0, month |-> 0]

\* f"{fecha_obj.month:02d}"
DosDigitos(n) == IF n < 10 THEN <<"0">> \o ATexto(n) ELSE ATexto(n)

\* f"{fecha_obj.year}-{fecha_obj.month:02d}": the year is not padded
FormatoPeriodo(y, m) == ATexto(y) \o <<"-">> \o DosDigitos(m)

\* datetime.strptime(x, '%Y-%m') on the text of a period: %Y takes exactly four
\* digits. fecha orders the dates: months since year 0.
StrptimePeriodo(x) ==
    LET forma == /\ Len(x) = 7 /\ x[5] = "-"
                 /\ TodosDigitos(SubSeq(x, 1, 4)) /\ TodosDigitos(SubSeq(x, 6, 7))
        y == AEntero(SubSeq(x, 1, 4))
        m == AEntero(SubSeq(x, 6, 7))
    IN  IF forma /\ y >= 1 /\ m \in 1..12 THEN [ok |-> TRUE, fecha |-> 12 * y + m]
        ELSE [ok |-> FALSE, fecha |-> 0]

----------------------------------------------------------------------------
(* Registration index loader *)

\* str.split(','): the fields between the commas
RECURSIVE SplitComas(_)
SplitComas(s) ==
    IF \A i \in 1..Len(s) : s[i] # ","
    THEN <<s>>
    ELSE LET p == CHOOSE i \in 1..Len(s) : s[i] = "," /\ \A j \in 1..(i - 1) : s[j] # ","
         IN  <<SubSeq(s, 1, p - 1)>> \o SplitComas(SubSeq(s, p + 1, Len(s)))

\* list.index(x)
Indice(lista, x) == CHOOSE i \in 1..Len(lista) : lista[i] = x /\ \A j \in 1..(i - 1) : lista[j] # x

EnLista(lista, x) == \E i \in 1..Len(lista) : lista[i] = x

\* the UTF-8 byte-order mark, one character once decoded
BOM == "BOM"

\* contenido[3:] when the content starts with the mark
SinBOMInicial(lineas) ==
    IF lineas[1] # <<>> /\ lineas[1][1] = BOM
    THEN <<Tail(lineas[1])>> \o Tail(lineas)
    ELSE lineas

RECURSIVE LStripBOM(_)
LStripBOM(s) == IF s # <<>> /\ Head(s) = BOM THEN LStripBOM(Tail(s)) ELSE s

\* encabezado = lineas[0].strip().split(','), its first name cleaned
Encabezado(lineas) ==
    LET e == SplitComas(Strip(lineas[1]))
    IN  <<Strip(LStripBOM(e[1]))>> \o Tail(e)

Max(a, b) == IF a >= b THEN a ELSE b

\* the first row of a suffix is kept
RECURSIVE CargarFilasPrimera(_, _, _, _, _)
CargarFilasPrimera(lineas, i, hostRegister_idx, phone_idx, registros) ==
    IF i > Len(lineas) THEN registros
    ELSE LET campos == SplitComas(Strip(lineas[i]))
             guarda == /\ Strip(lineas[i]) # <<>>
                       /\ Len(campos) >= Max(hostRegister_idx, phone_idx)
                       /\ Len(SoloDigitos(campos[phone_idx])) >= 10
         IN  CargarFilasPrimera(lineas, i + 1, hostRegister_idx, phone_idx,
                                IF guarda
                                THEN registros @@ (Ultimos10(SoloDigitos(campos[phone_idx]))
                                                      :> campos[hostRegister_idx])
                                ELSE registros)

\* the loop over the data lines, lines i..len(lineas) still to do
RECURSIVE CargarFilas(_, _, _, _, _)
CargarFilas(lineas, i, hostRegister_idx, phone_idx, registros) ==
    IF i > Len(lineas) THEN registros
    ELSE LET campos == SplitComas(Strip(lineas[i]))
             fecha_registro == campos[hostRegister_idx]
             numero_limpio == SoloDigitos(campos[phone_idx])
             guarda == /\ Strip(lineas[i]) # <<>>
                       /\ Len(campos) >= Max(hostRegister_idx, phone_idx)
                       /\ Len(numero_limpio) >= 10
         IN  CargarFilas(lineas, i + 1, hostRegister_idx, phone_idx,
                         IF guarda
                         THEN (Ultimos10(numero_limpio) :> fecha_registro) @@ registros
                         ELSE registros)

\* the empty dict
DictVacio == [x \in {} |-> <<>>]

\* the columns are taken by position, whatever the header names
cargar_datos_csv_por_posicion(archivo) ==
    IF ~archivo.legible THEN DictVacio
    ELSE CargarFilas(SinBOMInicial(archivo.lineas), 2, 1, 2, DictVacio)

\* cargar_datos_csv(): archivo = [legible, lineas]; an unreadable file raises
\* in open()/read() and the except clause returns {}
cargar_datos_csv(archivo) ==
    IF ~archivo.legible THEN DictVacio
    ELSE LET lineas == SinBOMInicial(archivo.lineas)
             encabezado == Encabezado(lineas)
         IN  IF EnLista(encabezado, <<"hostRegister">>) /\ EnLista(encabezado, <<"phone">>)
             THEN CargarFilas(lineas, 2, Indice(encabezado, <<"hostRegister">>),
                              Indice(encabezado, <<"phone">>), DictVacio)
             ELSE DictVacio

----------------------------------------------------------------------------
(* Text of the JSON export *)

\* a punctuation or whitespace character
P(c) == [k |-> c, v |-> <<>>]

\* a member `"key": "value"`, or the `"custom_attributes":` that precedes an object
M(key, valor) == [k |-> key, v |-> valor]

EsBlancoJson(t) == t.k \in {" ", "\r", "\t"}

RECURSIVE LStripJson(_)
LStripJson(s) ==
    IF s # <<>> /\ EsBlancoJson(Head(s)) THEN LStripJson(Tail(s)) ELSE s

RECURSIVE RStripJson(_)
RStripJson(s) ==
    IF s # <<>> /\ EsBlancoJson(s[Len(s)])
    THEN RStripJson(SubSeq(s, 1, Len(s) - 1)) ELSE s

\* linea.strip()
StripJson(s) == RStripJson(LStripJson(s))

\* occurrences of the character c in a string of characters
Cuenta(v, c) == Cardinality({i \in 1..Len(v) : v[i] = c})

\* linea.count(c) for a brace c: the punctuation and the braces inside values
RECURSIVE Count(_, _)
Count(linea, c) ==
    IF linea = <<>> THEN 0
    ELSE (IF Head(linea).k = c THEN 1 ELSE 0) + Cuenta(Head(linea).v, c)
         + Count(Tail(linea), c)

\* linea.startswith('{')
EmpiezaLlave(linea) == linea # <<>> /\ linea[1].k = "{"

\* linea.endswith('}')
TerminaLlave(linea) == linea # <<>> /\ linea[Len(linea)].k = "}"

\* linea.endswith('},')
TerminaLlaveComa(linea) ==
    Len(linea) >= 2 /\ linea[Len(linea)].k = "," /\ linea[Len(linea) - 1].k = "}"

----------------------------------------------------------------------------
(* json.loads *)

\* the JSON values of the export: strings, null, numbers and objects
VStr(s) == [t |-> "str", s |-> s, o |-> DictVacio]
VNull == [t |-> "null", s |-> <<>>, o |-> DictVacio]
VNum(s) == [t |-> "num", s |-> s, o |-> DictVacio]
VObj(o) == [t |-> "obj", s |-> <<>>, o |-> o]

JsonError == [ok |-> FALSE, sig |-> 0, obj |-> DictVacio]

RECURSIVE SaltaBlancos(_, _)
SaltaBlancos(toks, i) ==
    IF i <= Len(toks) /\ EsBlancoJson(toks[i]) THEN SaltaBlancos(toks, i + 1) ELSE i

ClavesSimples == {"phone", "phone_null", "phone_num", "email", "name", "fechaRegistro"}

\* the key a member token sets
Clave(t) == IF t.k \in {"phone_null", "phone_num"} THEN "phone" ELSE t.k

\* the value a member token carries
Valor(t) ==
    IF t.k = "phone_null" THEN VNull
    ELSE IF t.k = "phone_num" THEN VNum(t.v)
    ELSE VStr(t.v)

\* an object from toks[i] = "{"; members after the first follow a comma, a
\* repeated key keeps the last value
RECURSIVE ParseObjeto(_, _)
RECURSIVE ParseMiembros(_, _, _)
ParseMiembros(toks, i0, acc) ==
    LET i == SaltaBlancos(toks, i0)
    IN  IF i > Len(toks) THEN JsonError
        ELSE IF toks[i].k \in ClavesSimples
        THEN LET acc2 == (Clave(toks[i]) :> Valor(toks[i])) @@ acc
                 j == SaltaBlancos(toks, i + 1)
             IN  IF j > Len(toks) THEN JsonError
                 ELSE IF toks[j].k = "," THEN ParseMiembros(toks, j + 1, acc2)
                 ELSE IF toks[j].k = "}" THEN [ok |-> TRUE, sig |-> j + 1, obj |-> acc2]
                 ELSE JsonError
        ELSE IF toks[i].k = "custom_attributes"
        THEN LET h == SaltaBlancos(toks, i + 1)
                 sub == IF h <= Len(toks) /\ toks[h].k = "{"
                        THEN ParseObjeto(toks, h) ELSE JsonError
                 acc2 == ("custom_attributes" :> VObj(sub.obj)) @@ acc
                 j == SaltaBlancos(toks, sub.sig)
             IN  IF ~sub.ok \/ j > Len(toks) THEN JsonError
                 ELSE IF toks[j].k = "," THEN ParseMiembros(toks, j + 1, acc2)
                 ELSE IF toks[j].k = "}" THEN [ok |-> TRUE, sig |-> j + 1, obj |-> acc2]
                 ELSE JsonError
        ELSE JsonError

ParseObjeto(toks, i) ==
    LET j == SaltaBlancos(toks, i + 1)
    IN  IF j <= Len(toks) /\ toks[j].k = "}"
        THEN [ok |-> TRUE, sig |-> j + 1, obj |-> DictVacio]
        ELSE ParseMiembros(toks, j, DictVacio)

\* json.loads(texto): one value, nothing but whitespace around it; ok = FALSE
\* stands for json.JSONDecodeError
JsonLoads(texto) ==
    LET i == SaltaBlancos(texto, 1)
        r == IF i <= Len(texto) /\ texto[i].k = "{" THEN ParseObjeto(texto, i)
             ELSE JsonError
    IN  IF r.ok /\ SaltaBlancos(texto, r.sig) > Len(texto) THEN r ELSE JsonError

----------------------------------------------------------------------------
(* Record classifier *)

\* ten digits or more taken as without prefix
es_numero_diez_o_mas(numero) ==
    IF numero = <<>> THEN FALSE
    ELSE Len(SoloDigitos(numero)) >= 10

es_numero_mexicano_sin_prefijo(numero) ==
    IF numero = <<>> THEN FALSE
    ELSE Len(SoloDigitos(numero)) = 10

None == [tipo |-> "None"]

\* usuario.get(clave, 'No disponible') of a string member
Get(usuario, clave) ==
    IF clave \in DOMAIN usuario THEN usuario[clave].s ELSE NoDisponible

\* the try block of procesar_objeto: year, month and period of a parsed date;
\* a date strptime rejects leaves the record as it is
ConPeriodo(info, fecha_obj) ==
    IF fecha_obj.ok
    THEN [anio_registro |-> fecha_obj.year,
          mes_registro |-> fecha_obj.month,
          periodo |-> FormatoPeriodo(fecha_obj.year, fecha_obj.month)] @@ info
    ELSE info

\* the date part of procesar_objeto: the lookup in the index and the period
ConFechaCsv(info, fechas_registro_csv) ==
    IF info.ultimos_10_digitos \in DOMAIN fechas_registro_csv
    THEN ConPeriodo([info EXCEPT !.fecha_registro =
                                     fechas_registro_csv[info.ultimos_10_digitos]],
                    StrptimeFechaHora(fechas_registro_csv[info.ultimos_10_digitos]))
    ELSE info

\* the override taken whenever the sub-object carries it
ConAtributosSiempre(info, usuario) ==
    IF "custom_attributes" \in DOMAIN usuario
    THEN LET ca == usuario["custom_attributes"].o
             nombre == IF "name" \in DOMAIN ca
                       THEN [nombre |-> ca["name"].s] ELSE DictVacio
             i2 == IF "fechaRegistro" \in DOMAIN ca
                   THEN [info EXCEPT !.fecha_registro = ca["fechaRegistro"].s]
                   ELSE info
         IN  nombre @@ i2
    ELSE info

\* the custom attributes part of procesar_objeto
ConAtributos(info, usuario) ==
    IF "custom_attributes" \in DOMAIN usuario
    THEN LET ca == usuario["custom_attributes"].o
             nombre == IF "name" \in DOMAIN ca
                       THEN [nombre |-> ca["name"].s] ELSE DictVacio
             i2 == IF "fechaRegistro" \in DOMAIN ca /\ info.fecha_registro = NoDisponible
                   THEN [info EXCEPT !.fecha_registro = ca["fechaRegistro"].s]
                   ELSE info
         IN  nombre @@ i2
    ELSE info

\* info_usuario as first filled in
InfoUsuario(usuario, numero_limpio) ==
    [phone |-> usuario["phone"].s,
     phone_limpio |-> numero_limpio,
     ultimos_10_digitos |-> Ultimos10(numero_limpio),
     phone_length |-> Len(numero_limpio),
     email |-> Get(usuario, "email"),
     external_id |-> Get(usuario, "external_id"),
     country |-> Get(usuario, "country"),
     fecha_registro |-> NoDisponible]

\* only the presence of the field is tested
TelefonoPresente(usuario) == "phone" \in DOMAIN usuario

\* usuario['phone'] is truthy: not null, not '' (a number of the export is not 0)
TelefonoVerdadero(usuario) ==
    /\ "phone" \in DOMAIN usuario
    /\ usuario["phone"].t # "null"
    /\ ~(usuario["phone"].t = "str" /\ usuario["phone"].s = <<>>)

\* the body of procesar_objeto once json.loads has answered r: None when the
\* text did not parse, when there is no truthy phone, or when the phone is not
\* a string (re.sub raises TypeError)
Clasificar(r, fechas_registro_csv) ==
    IF ~r.ok THEN None
    ELSE IF TelefonoVerdadero(r.obj)
    THEN IF r.obj["phone"].t # "str" THEN None
         ELSE [tipo |-> "usuario",
               sin_prefijo |-> es_numero_mexicano_sin_prefijo(r.obj["phone"].s),
               info |-> ConAtributos(
                            ConFechaCsv(InfoUsuario(r.obj, SoloDigitos(r.obj["phone"].s)),
                                        fechas_registro_csv),
                            r.obj)]
    ELSE None

procesar_objeto(objeto_json, fechas_registro_csv) ==
    Clasificar(JsonLoads(objeto_json), fechas_registro_csv)

----------------------------------------------------------------------------
(* Streaming record reconstructor *)

\* the locals of analizar_archivo_json_streaming before the first line is read;
\* objeto_json and usuario_procesado are the last text handed to the classifier
\* and its answer, entregados every text handed so far
EstadoInicial ==
    [objeto_actual |-> <<>>, en_objeto |-> FALSE, llaves_abiertas |-> 0,
     objeto_json |-> <<>>, usuario_procesado |-> None, entregados |-> <<>>,
     usuarios_sin_prefijo |-> <<>>, usuarios_con_prefijo |-> <<>>,
     total_usuarios |-> 0, total_usuarios_con_telefono |-> 0]

\* "Eliminar la coma final si existe"
SinComaFinal(linea, objeto_actual) ==
    IF TerminaLlaveComa(linea)
    THEN SubSeq(objeto_actual, 1, Len(objeto_actual) - 1)
    ELSE objeto_actual

\* the list a classified user is appended to
ListaDestino(usuario_procesado) ==
    IF usuario_procesado.sin_prefijo THEN "usuarios_sin_prefijo" ELSE "usuarios_con_prefijo"

\* the count of users with a phone taken outside the "if"
ContarSiempre(e, usuario_procesado) ==
    IF usuario_procesado.tipo # "None"
    THEN [e EXCEPT !.total_usuarios_con_telefono = @ + 1,
                   ![ListaDestino(usuario_procesado)] = Append(@, usuario_procesado.info)]
    ELSE [e EXCEPT !.total_usuarios_con_telefono = @ + 1]

\* "if usuario_procesado:" and what follows it
Contar(e, usuario_procesado) ==
    IF usuario_procesado.tipo # "None"
    THEN [e EXCEPT !.total_usuarios_con_telefono = @ + 1,
                   ![ListaDestino(usuario_procesado)] = Append(@, usuario_procesado.info)]
    ELSE e

\* the object is complete: leave it, count what the classifier answered,
\* total_usuarios += 1, reset the buffer
Completar(e, objeto_json, usuario_procesado) ==
    [Contar(e, usuario_procesado) EXCEPT
        !.en_objeto = FALSE,
        !.objeto_json = objeto_json,
        !.usuario_procesado = usuario_procesado,
        !.entregados = Append(@, objeto_json),
        !.total_usuarios = @ + 1,
        !.objeto_actual = <<>>]

\* "Procesar el objeto completo"
ProcesarCompleto(e, objeto_json, fechas_registro_csv) ==
    Completar(e, objeto_json, procesar_objeto(objeto_json, fechas_registro_csv))

\* the test of a line that opens an object: "and" binds tighter than "or"
CierraEnApertura(llaves_abiertas, linea) ==
    (llaves_abiertas = 0 /\ TerminaLlaveComa(linea)) \/ TerminaLlave(linea)

\* the test of a line that continues an object
CierraEnContinuacion(llaves_abiertas, linea) ==
    llaves_abiertas = 0 /\ (TerminaLlaveComa(linea) \/ TerminaLlave(linea))

\* the locals once a non-blank line is taken in: a line that opens an object
\* starts the buffer and the count, a line inside an object adds to them, any
\* other line is dropped
Acumular(e, linea) ==
    IF ~e.en_objeto
    THEN IF EmpiezaLlave(linea)
         THEN [e EXCEPT !.en_objeto = TRUE,
                        !.objeto_actual = linea,
                        !.llaves_abiertas = Count(linea, "{") - Count(linea, "}")]
         ELSE e
    ELSE [e EXCEPT !.objeto_actual = @ \o linea,
                   !.llaves_abiertas = @ + Count(linea, "{") - Count(linea, "}")]

\* whether the line just taken in completes the object; a is Acumular(e, linea)
Cierra(e, a, linea) ==
    IF ~e.en_objeto
    THEN EmpiezaLlave(linea) /\ CierraEnApertura(a.llaves_abiertas, linea)
    ELSE CierraEnContinuacion(a.llaves_abiertas, linea)

\* a stripped, non-blank line: a is Acumular(e, linea)
TrasAcumular(e, a, linea, fechas_registro_csv) ==
    IF Cierra(e, a, linea)
    THEN ProcesarCompleto(a, SinComaFinal(linea, a.objeto_actual), fechas_registro_csv)
    ELSE a

LineaNoVacia(e, linea, fechas_registro_csv) ==
    TrasAcumular(e, Acumular(e, linea), linea, fechas_registro_csv)

\* the body of "for linea in file"
ProcesarLineaEn(e, linea_cruda, fechas_registro_csv) ==
    IF StripJson(linea_cruda) = <<>> THEN e
    ELSE LineaNoVacia(e, StripJson(linea_cruda), fechas_registro_csv)

\* the whole loop over the lines that follow the first
RECURSIVE ProcesarLineas(_, _, _)
ProcesarLineas(e, lineas, fechas_registro_csv) ==
    IF lineas = <<>> THEN e
    ELSE ProcesarLineas(ProcesarLineaEn(e, Head(lineas), fechas_registro_csv),
                        Tail(lineas), fechas_registro_csv)

----------------------------------------------------------------------------
(* Temporal aggregator *)

\* periodos_x[periodo] after the counting loop over one list
CuentaPeriodo(usuarios, periodo) ==
    Cardinality({i \in 1..Len(usuarios) :
                    "periodo" \in DOMAIN usuarios[i] /\ usuarios[i].periodo = periodo})

\* the keys of the defaultdict filled from one list
PeriodosDe(usuarios) ==
    {usuarios[i].periodo : i \in {j \in 1..Len(usuarios) : "periodo" \in DOMAIN usuarios[j]}}

\* the keys of the first list only
ClavesSoloSinPrefijo(usuarios_sin_prefijo, usuarios_con_prefijo) ==
    PeriodosDe(usuarios_sin_prefijo)

\* the period keys the aggregation runs over
ClavesPeriodos(usuarios_sin_prefijo, usuarios_con_prefijo) ==
    PeriodosDe(usuarios_sin_prefijo) \cup PeriodosDe(usuarios_con_prefijo)

\* round(parte / total * 100, 2) if total > 0 else 0, in hundredths; a tie
\* goes to the even hundredth
Porcentaje(parte, total) ==
    IF total > 0
    THEN LET q == (parte * 10000) \div total
             r == (parte * 10000) % total
         IN  IF 2 * r > total \/ (2 * r = total /\ q % 2 = 1) THEN q + 1 ELSE q
    ELSE 0

\* total of a period
TotalPeriodo(sin_prefijo, con_prefijo) == sin_prefijo + con_prefijo

\* the dict appended to analisis_temporal['datos'] for one period
Cubeta(periodo, usuarios_sin_prefijo, usuarios_con_prefijo) ==
    LET sin_prefijo == CuentaPeriodo(usuarios_sin_prefijo, periodo)
        con_prefijo == CuentaPeriodo(usuarios_con_prefijo, periodo)
        total == TotalPeriodo(sin_prefijo, con_prefijo)
    IN  [periodo |-> periodo, sin_prefijo |-> sin_prefijo, con_prefijo |-> con_prefijo,
         total |-> total,
         porcentaje_sin_prefijo |-> Porcentaje(sin_prefijo, total),
         porcentaje_con_prefijo |-> Porcentaje(con_prefijo, total)]

analizar_distribucion_temporal(usuarios_sin_prefijo, usuarios_con_prefijo) ==
    LET todos_periodos == Sorted(ClavesPeriodos(usuarios_sin_prefijo, usuarios_con_prefijo))
    IN  [periodos |-> todos_periodos,
         datos |-> [i \in 1..Len(todos_periodos) |->
                       Cubeta(todos_periodos[i], usuarios_sin_prefijo, usuarios_con_prefijo)]]

\* every record seen as the divisor
DivisorTodos(total_usuarios, total_usuarios_con_telefono) == total_usuarios

\* the divisor of the overall percentage
DivisorResumen(total_usuarios, total_usuarios_con_telefono) == total_usuarios_con_telefono

\* resultados_analisis of analizar_archivo_json_streaming
Resumen(e, analisis) ==
    [total_usuarios |-> e.total_usuarios,
     total_con_telefono |-> e.total_usuarios_con_telefono,
     total_sin_prefijo |-> Len(e.usuarios_sin_prefijo),
     total_con_prefijo |-> Len(e.usuarios_con_prefijo),
     porcentaje_sin_prefijo |->
         Porcentaje(Len(e.usuarios_sin_prefijo),
                    DivisorResumen(e.total_usuarios, e.total_usuarios_con_telefono)),
     analisis_temporal |-> analisis]

----------------------------------------------------------------------------
(* Result writer and chart loader *)

\* one data row of the temporal CSV as csv.writer writes it: the text of each
\* cell (a percentage in hundredths stands for its decimal text)
FilaCsv(cubeta) ==
    <<cubeta.periodo, ATexto(cubeta.total), ATexto(cubeta.sin_prefijo),
      ATexto(cubeta.con_prefijo), ATexto(cubeta.porcentaje_sin_prefijo),
      ATexto(cubeta.porcentaje_con_prefijo)>>

\* the rows guardar_resultados writes below the header
FilasTemporales(resultados_analisis) ==
    LET datos == resultados_analisis.analisis_temporal.datos
    IN  [i \in 1..Len(datos) |-> FilaCsv(datos[i])]

\* a row of the data frame: the parsed cells and the 'Fecha' column
FilaDf(fila) ==
    [Periodo |-> fila[1], Total |-> AEntero(fila[2]), SinPrefijo |-> AEntero(fila[3]),
     ConPrefijo |-> AEntero(fila[4]), Fecha |-> StrptimePeriodo(fila[1]).fecha]

\* df.sort_values('Fecha')
RECURSIVE OrdenarPorFecha(_)
OrdenarPorFecha(filas) ==
    IF filas = <<>> THEN <<>>
    ELSE LET m == CHOOSE i \in 1..Len(filas) :
                     /\ \A j \in 1..Len(filas) : filas[i].Fecha <= filas[j].Fecha
                     /\ \A j \in 1..(i - 1) : filas[j].Fecha # filas[i].Fecha
             resto == [j \in 1..(Len(filas) - 1) |-> IF j < m THEN filas[j] ELSE filas[j + 1]]
         IN  <<filas[m]>> \o OrdenarPorFecha(resto)

\* cargar_datos_csv() of the chart renderer: None when strptime raises on a period
graficar_cargar_datos_csv(filas) ==
    IF \E i \in 1..Len(filas) : ~StrptimePeriodo(filas[i][1]).ok
    THEN None
    ELSE [tipo |-> "df", filas |-> OrdenarPorFecha([i \in 1..Len(filas) |-> FilaDf(filas[i])])]

----------------------------------------------------------------------------
(* Inputs: phones, dates, CSV files and JSON exports *)

\* 10 digits, 10 digits with separators, 11, 13, 9, 0 and 15 digits
Tel10 == <<"5", "5", "1", "2", "3", "4", "5", "6", "7", "8">>
Tel10Guiones == <<"5", "5", "-", "1", "2", "3", "4", "-", "5", "6", "7", "8">>
Tel11 == <<"1", "5", "5", "1", "2", "3", "4", "5", "6", "7", "8">>
Tel13 == <<"5", "2", "1", "5", "5", "1", "2", "3", "4", "5", "6", "7", "8">>
Tel9 == <<"5", "5", "1", "2", "3", "4", "5", "6", "7">>
Tel0 == <<"+", "-">>
Tel15 == <<"0", "0", "5", "2", "1", "5", "5", "9", "8", "7", "6", "5", "4", "3", "2">>
Tel12Espacios == <<"+", "5", "2", " ", "5", "5", " ", "1", "2", "3", "4", " ", "5", "6", "7", "8">>
Tel10Otro == <<"5", "5", "9", "8", "7", "6", "5", "4", "3", "2">>

Fecha2023 == <<"2", "0", "2", "3", "-", "0", "5", "-", "1", "4", " ", "1", "0", ":", "0", "0", ":", "0", "0">>
Fecha2024 == <<"2", "0", "2", "4", "-", "0", "1", "-", "3", "1", " ", "0", "9", ":", "3", "0", ":", "0", "0">>
Fecha0999 == <<"0", "9", "9", "9", "-", "0", "5", "-", "1", "4", " ", "1", "0", ":", "0", "0", ":", "0", "0">>
FechaSinHora == <<"2", "0", "2", "3", "-", "0", "5", "-", "1", "4">>
FechaAtributo == <<"2", "0", "2", "0", "-", "0", "2", "-", "2", "9", " ", "2", "3", ":", "5", "9", ":", "5", "9">>

Coma == <<",">>

\* data lines of the registration CSV, date first unless said otherwise
FilaTel13 == Fecha2023 \o Coma \o Tel13
FilaTel12 == Fecha2024 \o Coma \o Tel12Espacios
FilaAntigua == Fecha0999 \o Coma \o Tel10Otro
FilaSinHora == FechaSinHora \o Coma \o Tel10Otro
FilaTel9 == Fecha2024 \o Coma \o Tel9
FilaCorta == Tel10
FilaBlanca == <<" ", "\r">>
FilaTelefonoPrimero == Tel10Otro \o Coma \o Fecha2024 \o <<"\r">>

FilasCsv == {FilaTel13, FilaTel12, FilaAntigua, FilaSinHora, FilaTel9, FilaCorta,
             FilaBlanca, FilaTelefonoPrimero}

EncabezadoBueno == <<"hostRegister", ",", "phone">>
EncabezadoBOM == <<BOM, "phone", ",", "hostRegister", "\r">>
EncabezadoSinPhone == <<"hostRegister", ",", "telefono">>
EncabezadoSinHost == <<"id", ",", "phone">>

EncabezadosCsv == {EncabezadoBueno, EncabezadoBOM, EncabezadoSinPhone, EncabezadoSinHost}

\* the sequences over S of length at most n
RECURSIVE SeqHasta(_, _)
SeqHasta(S, n) ==
    IF n = 0 THEN {<<>>}
    ELSE LET menores == SeqHasta(S, n - 1)
         IN  menores \cup {Append(q, x) : q \in {m \in menores : Len(m) = n - 1}, x \in S}

CsvIlegible == [legible |-> FALSE, lineas |-> <<<<>>>>]

\* the registration CSV files of the loader's runs
ArchivosCsv ==
    {CsvIlegible} \cup
    {[legible |-> TRUE, lineas |-> <<enc>> \o filas] :
        enc \in EncabezadosCsv, filas \in SeqHasta(FilasCsv, MaxFilas)}

\* the registration CSV files of the reconstructor's runs
CsvHabitual ==
    [legible |-> TRUE, lineas |-> <<EncabezadoBueno, FilaTel13, FilaAntigua, <<>>>>]

\* objects of the export, each a sequence of lines as they stand in the file
\* (the comma that separates it from the next object is added by Cuerpo)
ObjSin == <<  <<P("{"), M("phone", Tel10Guiones), P(","), M("email", <<"a">>), P("}")>>  >>
ObjOnce ==
    << <<P("{")>>,
       <<P(" "), P(" "), M("phone", Tel11), P(",")>>,
       <<P(" "), P(" "), M("custom_attributes", <<>>), P(" "), P("{"), M("name", <<"n">>),
         P(","), M("fechaRegistro", FechaAtributo), P("}")>>,
       <<P("}")>> >>
ObjNueve == <<  <<P("{"), M("phone", Tel9), P("}")>>  >>
ObjCero == <<  <<P("{"), M("phone", Tel0), P("}")>>  >>
ObjQuince == << <<P("{")>>, <<>>, <<P(" "), M("phone", Tel15)>>, <<P("}")>> >>
ObjSinTelefono == <<  <<P("{"), M("email", <<"a">>), P("}")>>  >>
ObjTelefonoVacio == <<  <<P("{"), M("phone", <<>>), P("}")>>  >>
ObjTelefonoNull == <<  <<P("{"), M("phone_null", <<>>), P("}")>>  >>
ObjTelefonoNumero == <<  <<P("{"), M("phone_num", Tel10), P("}")>>  >>
\* truncated: the closing brace is missing
ObjTruncado == << <<P("{")>>, <<M("phone", Tel10)>> >>
\* balanced braces around text that is no JSON
ObjIlegible == <<  <<P("{"), P(","), P("}")>>  >>
\* its first line ends with the brace that closes the nested object
ObjAnidadoPrimero ==
    << <<P("{"), M("custom_attributes", <<>>), P("{"), M("name", <<"n">>), P("}")>>,
       <<P(","), M("phone", Tel10), P("}")>> >>

ObjetosValidos ==
    {ObjSin, ObjOnce, ObjNueve, ObjCero, ObjQuince, ObjSinTelefono, ObjTelefonoVacio,
     ObjTelefonoNull, ObjTelefonoNumero, ObjAnidadoPrimero}

ObjetosMalos == {ObjTruncado, ObjIlegible}

ObjetosExport == ObjetosValidos \cup ObjetosMalos

\* the first line of the export: '[', '[' with whitespace around it, '{', and
\* the '' readline() gives on an empty file
PrimerasLineas == {<<P("[")>>, <<P(" "), P("["), P("\r")>>, <<P("{")>>, <<>>}

\* the lines of one object followed by another: a comma ends its last line
ConComa(objeto) ==
    [i \in 1..Len(objeto) |-> IF i = Len(objeto) THEN Append(objeto[i], P(",")) ELSE objeto[i]]

\* the lines of the file after the first: the objects, comma-separated, and ']'
RECURSIVE Cuerpo(_)
Cuerpo(objetos) ==
    IF objetos = <<>> THEN << <<P("]")>> >>
    ELSE IF Len(objetos) = 1 THEN Head(objetos) \o << <<P("]")>> >>
    ELSE ConComa(Head(objetos)) \o Cuerpo(Tail(objetos))

\* exports of the loader's runs
ExportsFijos ==
    {<<ObjSin, ObjOnce>>, <<ObjQuince, ObjNueve>>, <<ObjOnce, ObjQuince, ObjSinTelefono>>}

----------------------------------------------------------------------------
(* State *)

VARIABLES
    pc,                          \* where main() stands
    archivo_csv,                 \* the registration CSV: [legible, lineas]
    primera_linea,               \* the first line of the JSON export
    objetos,                     \* the objects that follow it in the file
    pos,                         \* the next line of Cuerpo(objetos) to read
    fechas_registro_csv,
    objeto_actual, en_objeto, llaves_abiertas,
    objeto_json, usuario_procesado, entregados,
    usuarios_sin_prefijo, usuarios_con_prefijo,
    total_usuarios, total_usuarios_con_telefono,
    analisis_temporal,
    retorno,                     \* what analizar_archivo_json_streaming returned
    archivo_temporal_csv,        \* the data rows of the temporal CSV on disk
    df                           \* what the chart renderer's loader returned

entrada == <<archivo_csv, primera_linea, objetos>>

locales == <<objeto_actual, en_objeto, llaves_abiertas, objeto_json, usuario_procesado,
             entregados, usuarios_sin_prefijo, usuarios_con_prefijo, total_usuarios,
             total_usuarios_con_telefono>>

vars == <<pc, entrada, pos, fechas_registro_csv, locales, analisis_temporal, retorno,
          archivo_temporal_csv, df>>

\* the locals as one record
Locales ==
    [objeto_actual |-> objeto_actual, en_objeto |-> en_objeto,
     llaves_abiertas |-> llaves_abiertas, objeto_json |-> objeto_json,
     usuario_procesado |-> usuario_procesado, entregados |-> entregados,
     usuarios_sin_prefijo |-> usuarios_sin_prefijo,
     usuarios_con_prefijo |-> usuarios_con_prefijo,
     total_usuarios |-> total_usuarios,
     total_usuarios_con_telefono |-> total_usuarios_con_telefono]

PonerLocales(e) ==
    /\ objeto_actual' = e.objeto_actual
    /\ en_objeto' = e.en_objeto
    /\ llaves_abiertas' = e.llaves_abiertas
    /\ objeto_json' = e.objeto_json
    /\ usuario_procesado' = e.usuario_procesado
    /\ entregados' = e.entregados
    /\ usuarios_sin_prefijo' = e.usuarios_sin_prefijo
    /\ usuarios_con_prefijo' = e.usuarios_con_prefijo
    /\ total_usuarios' = e.total_usuarios
    /\ total_usuarios_con_telefono' = e.total_usuarios_con_telefono

\* return [], [], 0, {}
RetornoVacio ==
    [usuarios_sin_prefijo |-> <<>>, usuarios_con_prefijo |-> <<>>,
     total_con_telefono |-> 0, resultados_analisis |-> DictVacio]

\* everything but the input, before main() starts
Arranque ==
    /\ pc = "inicio"
    /\ pos = 1
    /\ fechas_registro_csv = DictVacio
    /\ objeto_actual = <<>> /\ en_objeto = FALSE /\ llaves_abiertas = 0
    /\ objeto_json = <<>> /\ usuario_procesado = None /\ entregados = <<>>
    /\ usuarios_sin_prefijo = <<>> /\ usuarios_con_prefijo = <<>>
    /\ total_usuarios = 0 /\ total_usuarios_con_telefono = 0
    /\ analisis_temporal = DictVacio
    /\ retorno = RetornoVacio
    /\ archivo_temporal_csv = <<>>
    /\ df = None

\* runs over the exports, with the usual CSV or none
Init ==
    /\ archivo_csv \in {CsvHabitual, CsvIlegible}
    /\ primera_linea \in PrimerasLineas
    /\ objetos \in SeqHasta(ObjetosExport, MaxObjetos)
    /\ Arranque

\* runs over the registration CSV files, with a few exports
InitCsv ==
    /\ archivo_csv \in ArchivosCsv
    /\ primera_linea = <<P("[")>>
    /\ objetos \in ExportsFijos
    /\ Arranque

----------------------------------------------------------------------------
(* Steps of main() *)

\* fechas_registro_csv = cargar_datos_csv()
CargarDatosCsv ==
    /\ pc = "inicio"
    /\ fechas_registro_csv' = cargar_datos_csv(archivo_csv)
    /\ pc' = "abrir"
    /\ UNCHANGED <<entrada, pos, locales, analisis_temporal, retorno,
                   archivo_temporal_csv, df>>

\* primera_linea = file.readline().strip() and its test
LeerPrimeraLinea ==
    /\ pc = "abrir"
    /\ IF StripJson(primera_linea) # <<P("[")>>
       THEN /\ retorno' = RetornoVacio
            /\ pc' = "main"
       ELSE /\ retorno' = retorno
            /\ pc' = "lineas"
    /\ UNCHANGED <<entrada, pos, fechas_registro_csv, locales, analisis_temporal,
                   archivo_temporal_csv, df>>

\* one turn of "for linea in file"
ProcesarLinea ==
    /\ pc = "lineas"
    /\ pos <= Len(Cuerpo(objetos))
    /\ PonerLocales(ProcesarLineaEn(Locales, Cuerpo(objetos)[pos], fechas_registro_csv))
    /\ pos' = pos + 1
    /\ UNCHANGED <<pc, entrada, fechas_registro_csv, analisis_temporal, retorno,
                   archivo_temporal_csv, df>>

\* the aggregation called inside the loop, whatever is left of the file
AnalizarDistribucionTemporalAnticipado ==
    /\ pc = "lineas"
    /\ analisis_temporal' =
           analizar_distribucion_temporal(usuarios_sin_prefijo, usuarios_con_prefijo)
    /\ pc' = "resumen"
    /\ UNCHANGED <<entrada, pos, fechas_registro_csv, locales, retorno,
                   archivo_temporal_csv, df>>

\* the file is exhausted: analisis_temporal = analizar_distribucion_temporal(...)
AnalizarDistribucionTemporal ==
    /\ pc = "lineas"
    /\ pos > Len(Cuerpo(objetos))
    /\ analisis_temporal' =
           analizar_distribucion_temporal(usuarios_sin_prefijo, usuarios_con_prefijo)
    /\ pc' = "resumen"
    /\ UNCHANGED <<entrada, pos, fechas_registro_csv, locales, retorno,
                   archivo_temporal_csv, df>>

\* resultados_analisis = {...}; return
CrearResumen ==
    /\ pc = "resumen"
    /\ retorno' = [usuarios_sin_prefijo |-> usuarios_sin_prefijo,
                   usuarios_con_prefijo |-> usuarios_con_prefijo,
                   total_con_telefono |-> total_usuarios_con_telefono,
                   resultados_analisis |-> Resumen(Locales, analisis_temporal)]
    /\ pc' = "main"
    /\ UNCHANGED <<entrada, pos, fechas_registro_csv, locales, analisis_temporal,
                   archivo_temporal_csv, df>>

\* main() prints the results: resultados_analisis['total_usuarios'] raises
\* KeyError on the empty dict, and nothing catches it
MostrarResultados ==
    /\ pc = "main"
    /\ pc' = IF "total_usuarios" \in DOMAIN retorno.resultados_analisis
             THEN "guardar" ELSE "KeyError"
    /\ UNCHANGED <<entrada, pos, fechas_registro_csv, locales, analisis_temporal, retorno,
                   archivo_temporal_csv, df>>

\* guardar_resultados(...), then "Análisis completado."
GuardarResultados ==
    /\ pc = "guardar"
    /\ archivo_temporal_csv' = FilasTemporales(retorno.resultados_analisis)
    /\ pc' = "fin"
    /\ UNCHANGED <<entrada, pos, fechas_registro_csv, locales, analisis_temporal, retorno, df>>

\* the chart renderer, run afterwards on the temporal CSV
GraficarCargarDatos ==
    /\ pc = "fin"
    /\ df' = graficar_cargar_datos_csv(archivo_temporal_csv)
    /\ pc' = "graficado"
    /\ UNCHANGED <<entrada, pos, fechas_registro_csv, locales, analisis_temporal, retorno,
                   archivo_temporal_csv>>

Next ==
    \/ CargarDatosCsv
    \/ LeerPrimeraLinea
    \/ ProcesarLinea
    \/ AnalizarDistribucionTemporal
    \/ CrearResumen
    \/ MostrarResultados
    \/ GuardarResultados
    \/ GraficarCargarDatos

Spec == Init /\ [][Next]_vars

SpecCsv == InitCsv /\ [][Next]_vars

----------------------------------------------------------------------------
(* Runs of the aggregator and of what follows it *)

Rep(n, x) == [i \in 1..n |-> x]

IndiceHabitual == cargar_datos_csv(CsvHabitual)

\* classified users as procesar_objeto builds them: with the period 2023-05,
\* with the period 999-05, and without a period
InfoSinA == procesar_objeto(ObjSin[1], IndiceHabitual).info
InfoConA == procesar_objeto(<<P("{"), M("phone", Tel11), P("}")>>, IndiceHabitual).info
InfoSinB == procesar_objeto(<<P("{"), M("phone", Tel10Otro), P("}")>>, IndiceHabitual).info
InfoConB == procesar_objeto(<<P("{"), M("phone", Tel15), P("}")>>, IndiceHabitual).info
InfoConN == procesar_objeto(ObjNueve[1], IndiceHabitual).info

\* the stream is exhausted and has left these lists
InitAgg ==
    /\ pc = "lineas"
    /\ archivo_csv = CsvHabitual
    /\ primera_linea = <<P("[")>>
    /\ objetos = <<>>
    /\ pos = 2
    /\ fechas_registro_csv = IndiceHabitual
    /\ objeto_actual = <<>> /\ en_objeto = FALSE /\ llaves_abiertas = 0
    /\ objeto_json = <<>> /\ usuario_procesado = None /\ entregados = <<>>
    /\ \E sinA \in 0..MaxPorPeriodo, conA \in 0..MaxPorPeriodo,
          sinB \in 0..1, conB \in 0..1, conN \in 0..1 :
          /\ usuarios_sin_prefijo = Rep(sinA, InfoSinA) \o Rep(sinB, InfoSinB)
          /\ usuarios_con_prefijo =
                 Rep(conA, InfoConA) \o Rep(conN, InfoConN) \o Rep(conB, InfoConB)
          /\ total_usuarios_con_telefono = sinA + sinB + conA + conB + conN
          /\ total_usuarios = sinA + sinB + conA + conB + conN
    /\ analisis_temporal = DictVacio
    /\ retorno = RetornoVacio
    /\ archivo_temporal_csv = <<>>
    /\ df = None

NextAgg ==
    \/ AnalizarDistribucionTemporal
    \/ CrearResumen
    \/ MostrarResultados
    \/ GuardarResultados
    \/ GraficarCargarDatos

SpecAgg == InitAgg /\ [][NextAgg]_vars

----------------------------------------------------------------------------
(* Vocabulary of the properties *)

\* the first line passed the test
PrimeraLineaBien == StripJson(primera_linea) = <<P("[")>>

\* the texts handed to the classifier that parse as JSON
Legibles == {i \in 1..Len(entregados) : JsonLoads(entregados[i]).ok}

\* the record of the i-th text handed over
Registro(i) == JsonLoads(entregados[i]).obj

\* a record with no phone field, or an empty or null one
SinTelefono(reg) ==
    \/ "phone" \notin DOMAIN reg
    \/ reg["phone"].t = "null"
    \/ (reg["phone"].t = "str" /\ reg["phone"].s = <<>>)

\* a record whose phone is a non-empty string
TelefonoTexto(reg) ==
    "phone" \in DOMAIN reg /\ reg["phone"].t = "str" /\ reg["phone"].s # <<>>

\* number of digits of a phone
NumDigitos(tel) == Cardinality({i \in 1..Len(tel) : EsDigito(tel[i])})

\* the phones, in the order handed over, of the records with a non-empty
\* string phone of exactly ten digits (diez) or of any other digit count
RECURSIVE TelefonosEsperados(_, _)
TelefonosEsperados(i, diez) ==
    IF i = 0 THEN <<>>
    ELSE LET antes == TelefonosEsperados(i - 1, diez)
         IN  IF i \in Legibles /\ TelefonoTexto(Registro(i))
                /\ ((NumDigitos(Registro(i)["phone"].s) = 10) <=> diez)
             THEN Append(antes, Registro(i)["phone"].s)
             ELSE antes

Telefonos(usuarios) == [i \in 1..Len(usuarios) |-> usuarios[i].phone]

\* C1: the records with a non-empty string phone are in the without-prefix
\* list exactly when the phone has ten digits once its non-digits are removed,
\* and in the with-prefix list for every other digit count; each stored
\* phone_length is that digit count.
C1_ClasificacionPorDigitos ==
    /\ Telefonos(usuarios_sin_prefijo) = TelefonosEsperados(Len(entregados), TRUE)
    /\ Telefonos(usuarios_con_prefijo) = TelefonosEsperados(Len(entregados), FALSE)
    /\ \A i \in 1..Len(usuarios_sin_prefijo) :
           usuarios_sin_prefijo[i].phone_length = NumDigitos(usuarios_sin_prefijo[i].phone)
    /\ \A i \in 1..Len(usuarios_con_prefijo) :
           usuarios_con_prefijo[i].phone_length = NumDigitos(usuarios_con_prefijo[i].phone)

\* a phone of ten digits among separators is without prefix, a phone with no
\* digit at all is with prefix
C1_Testigo ==
    /\ Len(usuarios_sin_prefijo) = 1 /\ Len(usuarios_con_prefijo) = 1
    /\ usuarios_sin_prefijo[1].phone = Tel10Guiones
    /\ usuarios_sin_prefijo[1].phone_length = 10
    /\ usuarios_con_prefijo[1].phone_length = 0

\* C2: a first line that is not '[' leads to no classified record, empty
\* results, and an end of main() without an unhandled exception.
C2_SalidaLimpia ==
    ~PrimeraLineaBien =>
        /\ entregados = <<>>
        /\ retorno = RetornoVacio
        /\ pc # "KeyError"

\* C3: a text that does not parse as JSON increments neither total: the
\* records seen are the texts that parse, and none of the others is counted
\* as having a phone.
C3_IlegibleNoCuenta ==
    /\ total_usuarios = Cardinality(Legibles)
    /\ total_usuarios_con_telefono <= Cardinality(Legibles)

\* the text of an object of the export: its trimmed lines joined
RECURSIVE TextoObjeto(_)
TextoObjeto(objeto) ==
    IF objeto = <<>> THEN <<>> ELSE StripJson(Head(objeto)) \o TextoObjeto(Tail(objeto))

ObjetoLegible(objeto) == JsonLoads(TextoObjeto(objeto)).ok

\* the export without its malformed objects
SinMalformados == SelectSeq(objetos, ObjetoLegible)

\* the locals at the end of the stream of the export without its malformed objects
SinMalformadosFinal ==
    ProcesarLineas(EstadoInicial, Cuerpo(SinMalformados), fechas_registro_csv)

\* C4: once the stream is exhausted, the valid objects have been classified and
\* counted as they are when the malformed objects are absent from the file.
C4_MalformadoNoAborta ==
    (PrimeraLineaBien /\ pc \notin {"inicio", "abrir", "lineas"}) =>
        /\ usuarios_sin_prefijo = SinMalformadosFinal.usuarios_sin_prefijo
        /\ usuarios_con_prefijo = SinMalformadosFinal.usuarios_con_prefijo
        /\ total_usuarios_con_telefono = SinMalformadosFinal.total_usuarios_con_telefono

\* the records handed over so far that have no phone, or an empty or null one
RegistrosSinTelefono == {i \in Legibles : SinTelefono(Registro(i))}

\* the last text handed over is one of them
UltimoSinTelefono == Len(entregados) \in RegistrosSinTelefono

\* C5: a record with no phone field, or with an empty or null phone, is not
\* counted in total_usuarios_con_telefono and is in neither list: the
\* classifier answers None for it, and the lists and the count hold at most
\* the other texts handed over.
C5_SinTelefonoExcluido ==
    /\ UltimoSinTelefono => usuario_procesado = None
    /\ total_usuarios_con_telefono <= Len(entregados) - Cardinality(RegistrosSinTelefono)
    /\ Len(usuarios_sin_prefijo) + Len(usuarios_con_prefijo)
           <= Len(entregados) - Cardinality(RegistrosSinTelefono)
    /\ \A i \in 1..Len(usuarios_sin_prefijo) : usuarios_sin_prefijo[i].phone # <<>>
    /\ \A i \in 1..Len(usuarios_con_prefijo) : usuarios_con_prefijo[i].phone # <<>>

\* a record with a phone was counted, then one with an empty phone was not
C5_Testigo ==
    /\ UltimoSinTelefono
    /\ "phone" \in DOMAIN Registro(Len(entregados))
    /\ total_usuarios = 2
    /\ total_usuarios_con_telefono = 1

\* the lines of the registration CSV as the loader reads them
LineasCsv == SinBOMInicial(archivo_csv.lineas)

NombresCsv == Encabezado(LineasCsv)

CamposFila(i) == SplitComas(Strip(LineasCsv[i]))

ColumnaTelefono == Indice(NombresCsv, <<"phone">>)

ColumnaFecha == Indice(NombresCsv, <<"hostRegister">>)

\* the rows of a CSV with both columns that carry a date and a phone
FilasConFechaYTelefono ==
    IF archivo_csv.legible /\ EnLista(NombresCsv, <<"phone">>)
       /\ EnLista(NombresCsv, <<"hostRegister">>)
    THEN {i \in 2..Len(LineasCsv) :
             /\ Strip(LineasCsv[i]) # <<>>
             /\ Len(CamposFila(i)) >= ColumnaTelefono
             /\ Len(CamposFila(i)) >= ColumnaFecha}
    ELSE {}

\* the trailing ten digits of a phone of at least ten digits
Sufijo(tel) ==
    LET d == SoloDigitos(tel) IN [j \in 1..10 |-> d[Len(d) - 10 + j]]

\* the rows whose phone has at least ten digits and the suffix of tel
FilasDelSufijo(tel) ==
    {i \in FilasConFechaYTelefono :
        /\ NumDigitos(CamposFila(i)[ColumnaTelefono]) >= 10
        /\ Sufijo(CamposFila(i)[ColumnaTelefono]) = Sufijo(tel)}

UltimaFila(S) == CHOOSE i \in S : \A j \in S : j <= i

\* the date of a classified user is that of the last row of its suffix when
\* there is one, and the date of no row otherwise
UnionCorrecta(info) ==
    IF info.phone_length >= 10 /\ FilasDelSufijo(info.phone) # {}
    THEN info.fecha_registro = CamposFila(UltimaFila(FilasDelSufijo(info.phone)))[ColumnaFecha]
    ELSE /\ "periodo" \notin DOMAIN info
         /\ \A i \in FilasConFechaYTelefono :
                info.fecha_registro # CamposFila(i)[ColumnaFecha]

\* C6: a record whose phone has at least ten digits receives a CSV date
\* exactly when a CSV row (one that carries a date and a phone) has a phone of
\* at least ten digits with the same trailing ten digits, whatever precedes
\* them on either side; the last such row gives the date; a phone of fewer
\* than ten digits never joins.
C6_UnionPorSufijo ==
    /\ \A i \in 1..Len(usuarios_sin_prefijo) : UnionCorrecta(usuarios_sin_prefijo[i])
    /\ \A i \in 1..Len(usuarios_con_prefijo) : UnionCorrecta(usuarios_con_prefijo[i])

\* the 13-digit row and the 12-digit row share the suffix of the 11-digit
\* phone of the export, which takes the date of the second
C6_Testigo ==
    /\ archivo_csv.lineas = <<EncabezadoBueno, FilaTel13, FilaTel12>>
    /\ \E i \in 1..Len(usuarios_con_prefijo) :
           /\ usuarios_con_prefijo[i].phone = Tel11
           /\ usuarios_con_prefijo[i].fecha_registro = Fecha2024

\* the aggregation has run
Agregado == "datos" \in DOMAIN analisis_temporal

\* the users of a list that have the period
ConElPeriodo(usuarios, periodo) ==
    {i \in 1..Len(usuarios) :
        "periodo" \in DOMAIN usuarios[i] /\ usuarios[i].periodo = periodo}

\* the period keys that occur in a list
PeriodosPresentes(usuarios) ==
    {usuarios[i].periodo : i \in {j \in 1..Len(usuarios) : "periodo" \in DOMAIN usuarios[j]}}

\* p hundredths is parte / total * 100 rounded to two decimals
EsPorcentaje(p, parte, total) ==
    IF total = 0 THEN p = 0
    ELSE /\ 2 * (p * total - parte * 10000) <= total
         /\ 2 * (parte * 10000 - p * total) <= total

CubetaCorrecta(c) ==
    /\ c.sin_prefijo = Cardinality(ConElPeriodo(usuarios_sin_prefijo, c.periodo))
    /\ c.con_prefijo = Cardinality(ConElPeriodo(usuarios_con_prefijo, c.periodo))
    /\ c.total = c.sin_prefijo + c.con_prefijo
    /\ EsPorcentaje(c.porcentaje_sin_prefijo, c.sin_prefijo, c.total)
    /\ EsPorcentaje(c.porcentaje_con_prefijo, c.con_prefijo, c.total)
    /\ (c.sin_prefijo = 3 /\ c.con_prefijo = 7) =>
           (c.total = 10 /\ c.porcentaje_sin_prefijo = 3000
            /\ c.porcentaje_con_prefijo = 7000)

\* C7: the aggregator gives one bucket per period key of either list, in
\* strictly ascending key order and aligned with periodos; the counts of a
\* bucket are the numbers of records of its period in each list, total is
\* their sum, the percentages are count / total * 100 rounded to two decimals.
C7_CubetasPorPeriodo ==
    Agregado =>
        LET periodos == analisis_temporal.periodos
            datos == analisis_temporal.datos
        IN  /\ Len(datos) = Len(periodos)
            /\ \A i \in 1..Len(datos) : datos[i].periodo = periodos[i]
            /\ \A i \in 1..Len(periodos) : \A j \in (i + 1)..Len(periodos) :
                   MenorTexto(periodos[i], periodos[j])
            /\ {periodos[i] : i \in 1..Len(periodos)} =
                   PeriodosPresentes(usuarios_sin_prefijo)
                       \cup PeriodosPresentes(usuarios_con_prefijo)
            /\ \A i \in 1..Len(datos) : CubetaCorrecta(datos[i])

\* 3 without and 7 with prefix in 2023-05, and a second period only in the
\* with-prefix list
C7_Testigo ==
    /\ Agregado
    /\ Len(analisis_temporal.datos) = 2
    /\ analisis_temporal.datos[1] =
           [periodo |-> <<"2", "0", "2", "3", "-", "0", "5">>, sin_prefijo |-> 3,
            con_prefijo |-> 7, total |-> 10, porcentaje_sin_prefijo |-> 3000,
            porcentaje_con_prefijo |-> 7000]
    /\ analisis_temporal.datos[2].sin_prefijo = 0

\* the summary has been built
ConResumen == "total_usuarios" \in DOMAIN retorno.resultados_analisis

\* C8: porcentaje_sin_prefijo of the summary is
\* total_sin_prefijo / total_con_telefono * 100 rounded to two decimals, and 0
\* when total_con_telefono is 0; total_sin_prefijo is the length of the
\* without-prefix list.
C8_PorcentajeResumen ==
    ConResumen =>
        LET r == retorno.resultados_analisis
        IN  /\ r.total_sin_prefijo = Len(usuarios_sin_prefijo)
            /\ r.total_con_telefono = total_usuarios_con_telefono
            /\ EsPorcentaje(r.porcentaje_sin_prefijo, r.total_sin_prefijo,
                            r.total_con_telefono)

\* the only phone of two records seen is without prefix
C8_Testigo ==
    /\ ConResumen
    /\ retorno.resultados_analisis.total_usuarios = 2
    /\ retorno.resultados_analisis.total_con_telefono = 1
    /\ retorno.resultados_analisis.total_sin_prefijo = 1
    /\ retorno.resultados_analisis.porcentaje_sin_prefijo = 10000

\* the CSV cannot be read, or its header lacks hostRegister or phone
CsvDegradado ==
    \/ ~archivo_csv.legible
    \/ archivo_csv.lineas[1] \in {EncabezadoSinPhone, EncabezadoSinHost}

SinFechaCsv(info) ==
    /\ "periodo" \notin DOMAIN info
    /\ info.fecha_registro \in {NoDisponible, FechaAtributo}

\* C9: with an unreadable CSV or a header that lacks a column the index is
\* empty and the analysis goes on: no KeyError, every record with a phone is
\* classified and counted, none has a CSV date or a period, and the temporal
\* analysis has no period.
C9_CsvDegradado ==
    CsvDegradado =>
        /\ fechas_registro_csv = DictVacio
        /\ pc # "KeyError"
        /\ Telefonos(usuarios_sin_prefijo) = TelefonosEsperados(Len(entregados), TRUE)
        /\ Telefonos(usuarios_con_prefijo) = TelefonosEsperados(Len(entregados), FALSE)
        /\ total_usuarios_con_telefono =
               Len(usuarios_sin_prefijo) + Len(usuarios_con_prefijo)
        /\ \A i \in 1..Len(usuarios_sin_prefijo) : SinFechaCsv(usuarios_sin_prefijo[i])
        /\ \A i \in 1..Len(usuarios_con_prefijo) : SinFechaCsv(usuarios_con_prefijo[i])
        /\ Agregado => (analisis_temporal.periodos = <<>> /\ analisis_temporal.datos = <<>>)
        /\ ConResumen => retorno.resultados_analisis.total_con_telefono =
                             total_usuarios_con_telefono

\* the header lacks phone, a row has the suffix of both phones of the export,
\* and the run is complete
C9_Testigo ==
    /\ archivo_csv.lineas = <<EncabezadoSinPhone, FilaTel13>>
    /\ pc = "graficado"
    /\ total_usuarios_con_telefono = 2
    /\ Len(usuarios_sin_prefijo) = 1

\* C10: the temporal CSV read back by the chart renderer's loader gives the
\* periods of the aggregator in the same order with the same counts.
C10_IdaYVuelta ==
    pc = "graficado" =>
        LET datos == retorno.resultados_analisis.analisis_temporal.datos
        IN  /\ df.tipo = "df"
            /\ Len(df.filas) = Len(datos)
            /\ \A i \in 1..Len(datos) :
                   /\ df.filas[i].Periodo = datos[i].periodo
                   /\ df.filas[i].Total = datos[i].total
                   /\ df.filas[i].SinPrefijo = datos[i].sin_prefijo
                   /\ df.filas[i].ConPrefijo = datos[i].con_prefijo

\* the line the loop takes in at this step, trimmed
LineaLeida == StripJson(Cuerpo(objetos)[pos])

\* the step hands a buffer to the classifier
EntregaBuffer == Len(entregados') = Len(entregados) + 1

\* C11: an object is declared complete only when the brace depth is zero and
\* the line just appended ends with } or },: every step that hands a buffer to
\* the classifier leaves the in-object state with the depth at zero on such a
\* line, on the line that opens an object as on the lines that continue it.
C11_CompletoSoloBalanceado ==
    [][EntregaBuffer =>
          /\ ~en_objeto'
          /\ llaves_abiertas' = 0
          /\ (TerminaLlave(LineaLeida) \/ TerminaLlaveComa(LineaLeida))]_vars

\* an object of a well-formed export: its text is a JSON object that starts on
\* its first line
ObjetoBienFormado(objeto) ==
    /\ objeto # <<>>
    /\ EmpiezaLlave(StripJson(objeto[1]))
    /\ ObjetoLegible(objeto)

ExportBienFormado ==
    /\ PrimeraLineaBien
    /\ \A i \in 1..Len(objetos) : ObjetoBienFormado(objetos[i])

\* C12: once the stream of a well-formed export is exhausted, the classifier
\* has been handed one buffer per object, in input order, each the object's
\* trimmed lines joined without the trailing comma (no blank line and no ]
\* in it), and total_usuarios is the number of objects.
C12_UnBufferPorObjeto ==
    (ExportBienFormado /\ pc \notin {"inicio", "abrir", "lineas"}) =>
        /\ entregados = [i \in 1..Len(objetos) |-> TextoObjeto(objetos[i])]
        /\ total_usuarios = Len(objetos)

\* the record has a registration-date override among its custom attributes
TieneFechaAtributo(reg) ==
    /\ "custom_attributes" \in DOMAIN reg
    /\ "fechaRegistro" \in DOMAIN reg["custom_attributes"].o

\* the index has an entry for the trailing digits of the classified user
EnIndiceCsv(info) == info.ultimos_10_digitos \in DOMAIN fechas_registro_csv

SinPeriodo(info) ==
    /\ "periodo" \notin DOMAIN info
    /\ "anio_registro" \notin DOMAIN info
    /\ "mes_registro" \notin DOMAIN info

\* the registration date of the user classified last, reg the record it was
\* built from: the CSV date when the index has one, else the override when the
\* record carries one (and then no year, month or period), else the sentinel
FechaResuelta(info, reg) ==
    IF EnIndiceCsv(info)
    THEN info.fecha_registro = fechas_registro_csv[info.ultimos_10_digitos]
    ELSE /\ SinPeriodo(info)
         /\ info.fecha_registro =
                IF TieneFechaAtributo(reg) THEN reg["custom_attributes"].o["fechaRegistro"].s
                ELSE NoDisponible

\* the user classified last is the last of its list
UltimoEnSuLista ==
    LET lista == IF usuario_procesado.sin_prefijo
                 THEN usuarios_sin_prefijo ELSE usuarios_con_prefijo
    IN  lista # <<>> /\ lista[Len(lista)] = usuario_procesado.info

\* the classified users of both lists that have a period
ConAlgunPeriodo ==
    Cardinality({i \in 1..Len(usuarios_sin_prefijo) :
                    "periodo" \in DOMAIN usuarios_sin_prefijo[i]})
    + Cardinality({i \in 1..Len(usuarios_con_prefijo) :
                    "periodo" \in DOMAIN usuarios_con_prefijo[i]})

RECURSIVE SumaTotales(_)
SumaTotales(datos) ==
    IF datos = <<>> THEN 0 ELSE Head(datos).total + SumaTotales(Tail(datos))

\* C13: the override of the custom attributes is the registration date only
\* when the index has no date for the record, the CSV date being kept
\* otherwise; a record dated by the override has no year, month or period, is
\* in its classification list and in total_usuarios_con_telefono, and the
\* buckets count only the records that have a period.
C13_FechaAtributoSinPeriodo ==
    /\ usuario_procesado.tipo = "usuario" =>
           /\ FechaResuelta(usuario_procesado.info, Registro(Len(entregados)))
           /\ UltimoEnSuLista
    /\ \A i \in 1..Len(usuarios_sin_prefijo) :
           EnIndiceCsv(usuarios_sin_prefijo[i]) \/ SinPeriodo(usuarios_sin_prefijo[i])
    /\ \A i \in 1..Len(usuarios_con_prefijo) :
           EnIndiceCsv(usuarios_con_prefijo[i]) \/ SinPeriodo(usuarios_con_prefijo[i])
    /\ total_usuarios_con_telefono =
           Len(usuarios_sin_prefijo) + Len(usuarios_con_prefijo)
    /\ Agregado => SumaTotales(analisis_temporal.datos) = ConAlgunPeriodo

\* the index has a date for another phone only: the 11-digit record takes the
\* override and is counted, and the one bucket holds the other record alone
C13_Testigo ==
    /\ Agregado
    /\ fechas_registro_csv # DictVacio
    /\ \E i \in 1..Len(usuarios_con_prefijo) :
           /\ usuarios_con_prefijo[i].phone = Tel11
           /\ usuarios_con_prefijo[i].fecha_registro = FechaAtributo
           /\ "periodo" \notin DOMAIN usuarios_con_prefijo[i]
    /\ total_usuarios_con_telefono = 2
    /\ SumaTotales(analisis_temporal.datos) = 1

\* the stream of records is exhausted
FlujoAgotado == pos > Len(Cuerpo(objetos))

\* the result writer has run
Guardado == pc \in {"fin", "graficado"}

\* where each phase finds the run
FasesEnOrden ==
    /\ entregados # <<>> =>
           (pc # "inicio" /\ fechas_registro_csv = cargar_datos_csv(archivo_csv))
    /\ Agregado => (PrimeraLineaBien /\ FlujoAgotado)
    /\ Guardado => (Agregado /\ ConResumen)

\* what a step may change
PasoEnOrden ==
    /\ fechas_registro_csv' # fechas_registro_csv => (pc = "inicio" /\ entregados = <<>>)
    /\ entregados' # entregados =>
           /\ pc = "lineas" /\ ~FlujoAgotado /\ ~Agregado
           /\ pos' = pos + 1
           /\ Len(entregados') = Len(entregados) + 1
           /\ SubSeq(entregados', 1, Len(entregados)) = entregados
           /\ fechas_registro_csv' = fechas_registro_csv
    /\ (Agregado' /\ ~Agregado) => (FlujoAgotado /\ ~Guardado /\ ~Guardado')
    /\ Agregado => analisis_temporal' = analisis_temporal
    /\ (Guardado' /\ ~Guardado) => Agregado

\* C14: the phases of a run come in order: the index is whole before the first
\* record is classified and no later step changes it; records are handed to
\* the classifier one per step, each after those before it, while lines
\* remain; the aggregation starts once the last line is consumed and nothing
\* is classified after it; the result writer runs after the aggregation.
C14_FasesEnOrden == [](FasesEnOrden) /\ [][PasoEnOrden]_vars

\* a run that went through every phase: an index with entries, two records
\* classified, the aggregation, the temporal CSV written
C14_Testigo ==
    /\ Guardado
    /\ fechas_registro_csv # DictVacio
    /\ Len(entregados) = 2
    /\ Len(usuarios_sin_prefijo) + Len(usuarios_con_prefijo) = 2
    /\ archivo_temporal_csv # <<>>

\* q continues p
Prolonga(q, p) == Len(q) >= Len(p) /\ SubSeq(q, 1, Len(p)) = p

\* the counts and the lists after any prefix of the stream
ConteosCoherentes ==
    /\ total_usuarios_con_telefono =
           Len(usuarios_sin_prefijo) + Len(usuarios_con_prefijo)
    /\ \A i \in 1..Len(usuarios_sin_prefijo) : \A j \in 1..Len(usuarios_con_prefijo) :
           usuarios_sin_prefijo[i] # usuarios_con_prefijo[j]
    /\ total_usuarios_con_telefono <= total_usuarios
    /\ Agregado => SumaTotales(analisis_temporal.datos) <= total_usuarios_con_telefono

\* no step takes anything back
ConteosCrecientes ==
    /\ total_usuarios' >= total_usuarios
    /\ total_usuarios_con_telefono' >= total_usuarios_con_telefono
    /\ Prolonga(usuarios_sin_prefijo', usuarios_sin_prefijo)
    /\ Prolonga(usuarios_con_prefijo', usuarios_con_prefijo)

\* C15: after any prefix of the stream total_usuarios_con_telefono is the
\* length of the two lists together, no record is in both lists, it does not
\* exceed total_usuarios, no count ever decreases, and the totals of the
\* buckets add up to at most total_usuarios_con_telefono.
C15_ConteosCoherentes == [](ConteosCoherentes) /\ [][ConteosCrecientes]_vars

\* two records seen, one in each list, and one of them alone in a bucket
C15_Testigo ==
    /\ Agregado
    /\ total_usuarios = 2
    /\ Len(usuarios_sin_prefijo) = 1
    /\ Len(usuarios_con_prefijo) = 1
    /\ SumaTotales(analisis_temporal.datos) = 1

====
